---- MODULE Spec2Model ----
(***************************************************************************)
(* State-machine model of the scripts of IndustryAgents-AEC-WorkforceDispatch. *)
(*                                                                         *)
(* One process runs one script.  A script first reads its configuration    *)
(* from the environment, then either provisions remote resources (setup    *)
(* scripts) or resolves an agent and runs an interactive loop (clients).   *)
(*                                                                         *)
(* Text is modelled as sequences of one-character strings, so that the     *)
(* trimming and case folding of the input line are computed.  A response   *)
(* body is a sequence of JSON tokens, so that parsing is computed.         *)
(***************************************************************************)
EXTENDS Integers, Sequences, FiniteSets, TLC

VARIABLES
    script,        \* the script this process runs
    env,           \* names of the environment variables that are set
    pc,            \* position of the process in the script
    cause,         \* why the process ended ("none" while it runs)
    network,       \* number of network requests the process has issued
    agent,         \* identity resolved at startup (versions[0]) or NoAgent
    lineNo,        \* number of lines read from standard input
    rawLine,       \* the line as returned by input(), before strip()
    user_message,  \* the loop variable: rawLine.strip()
    calls,         \* responses.create requests issued for the current line
    invocations,   \* responses.create requests issued in the whole session
    span,          \* attributes set on the span of the current iteration
    spans,         \* number of spans started in the session
    out,           \* what the current iteration has printed
    response,      \* what the remote service answered for the current line
    full_response, \* streaming clients: text accumulated from the deltas
    received,      \* streaming clients: events consumed from the stream this turn
    created        \* knowledge-base setup: resources created so far, in order

vars == <<script, env, pc, cause, network, agent, lineNo, rawLine,
          user_message, calls, invocations, span, spans, out, response,
          full_response, received, created>>

----------------------------------------------------------------------------
(* Bounds of the model *)

\* lines read from standard input in one session
MaxLines == 2
\* length of the generated input lines
MaxLineLen == 2
\* events delivered by one response stream
MaxEvents == 2

----------------------------------------------------------------------------
(* Text: str.strip() and str.lower() *)

Whitespace == {" ", "\t"}

UpperChars == <<"E", "X", "I", "T", "Q", "U", "H", "Y">>
LowerChars == <<"e", "x", "i", "t", "q", "u", "h", "y">>

\* one character of str.lower()
lower_char(c) ==
    IF \E i \in 1..Len(UpperChars) : UpperChars[i] = c
    THEN LowerChars[CHOOSE i \in 1..Len(UpperChars) : UpperChars[i] = c]
    ELSE c

\* str.lower()
lower(s) == [i \in 1..Len(s) |-> lower_char(s[i])]

RECURSIVE lstrip(_)
lstrip(s) ==
    IF s # <<>> /\ Head(s) \in Whitespace THEN lstrip(Tail(s)) ELSE s

RECURSIVE rstrip(_)
rstrip(s) ==
    IF s # <<>> /\ s[Len(s)] \in Whitespace
    THEN rstrip(SubSeq(s, 1, Len(s) - 1))
    ELSE s

\* str.strip(): input("\nYou: ").strip()
strip(s) == rstrip(lstrip(s))

\* the literal ['exit', 'quit', 'q']
ExitTokens == { <<"e", "x", "i", "t">>, <<"q", "u", "i", "t">>, <<"q">> }

\* a plausible slip: the comparison without .lower()
IsExitToken_case_sensitive(msg) == msg \in ExitTokens

\* a plausible slip: the line is searched for an exit word
IsExitToken_contains(msg) ==
    \E t \in ExitTokens : \E a \in 0..(Len(msg) - Len(t)) :
        SubSeq(lower(msg), a + 1, a + Len(t)) = t

\* user_message.lower() in ['exit', 'quit', 'q']
IsExitToken(msg) == lower(msg) \in ExitTokens

\* a plausible slip: whitespace-only input is not recognised as empty
IsEmpty_never(msg) == FALSE

\* not user_message
IsEmpty(msg) == msg = <<>>

----------------------------------------------------------------------------
(* Lines the user may type *)

\* the generated lines are the whitespace-only lines up to MaxLineLen
LineChars == Whitespace

RECURSIVE SeqsUpTo(_, _)
SeqsUpTo(S, n) ==
    IF n = 0 THEN { <<>> }
    ELSE LET shorter == SeqsUpTo(S, n - 1)
         IN  shorter \cup { Append(s, c) : s \in shorter, c \in S }

NamedLines ==
    { <<"e", "x", "i", "t">>,
      <<"E", "x", "i", "t">>,
      <<"Q", "U", "I", "T">>,
      <<"Q">>,
      <<"q">>,
      <<" ", "E", "X", "I", "T", " ">>,
      <<"\t", "q", "u", "i", "t">>,
      <<"e", "x", "i", "t", " ", "n", "o", "w">>,
      <<"q", "u", "i", "t", " ", "p", "l", "e", "a", "s", "e">>,
      <<" ", "q", "\t">>,
      <<"q", "q">>,
      <<" ", "H", "i", "\t">> }

InputLines == NamedLines \cup SeqsUpTo(LineChars, MaxLineLen)

----------------------------------------------------------------------------
(* Values: what a JSON document carries, what a span attribute holds *)

Str(s) == [ty |-> "str", v |-> s, items |-> <<>>]
Num(n) == [ty |-> "num", v |-> n, items |-> <<>>]
Lit(l) == [ty |-> "lit", v |-> l, items |-> <<>>]
List(xs) == [ty |-> "list", v |-> "", items |-> xs]
\* a Python str held as its characters (user input, streamed text)
Chars(cs) == [ty |-> "chars", v |-> "", items |-> cs]
\* a Python int computed by the program (len(...))
PyInt(n) == [ty |-> "int", v |-> "", items |-> <<n>>]

\* Python None
None == Lit("null")

\* the empty dict / a span without attributes
EmptyDict == [k \in {} |-> None]

\* d[key] = val, a later value replacing an earlier one
DictSet(d, key, val) ==
    [k \in (DOMAIN d) \cup {key} |-> IF k = key THEN val ELSE d[k]]

\* dict.get(key, default)
get(d, key, default) == IF key \in DOMAIN d THEN d[key] ELSE default

\* bool(value), as the `if` of line 124 evaluates it
Truthy(val) ==
    CASE val.ty = "lit" -> val.v = "true"
      [] val.ty = "str" -> val.v # ""
      [] val.ty = "num" -> val.v \notin {"0", "0.0"}
      [] val.ty = "list" -> val.items # <<>>
      [] OTHER -> TRUE

\* the text an f-string shows for a value: str(value)
PyStr(val) ==
    CASE val.ty = "lit" ->
            Str(CASE val.v = "true" -> "True"
                  [] val.v = "false" -> "False"
                  [] OTHER -> "None")
      [] val.ty = "list" -> [ty |-> "str", v |-> "[]", items |-> val.items]
      [] OTHER -> Str(val.v)

----------------------------------------------------------------------------
(* JSON text: tokens, json.loads, and the service's encoder *)

Tok(t, v) == [t |-> t, v |-> v]
P(c) == Tok("punct", c)

\* the number a JSON number lexeme denotes, in Python's repr
NumValue(lexeme) ==
    CASE lexeme = "0.90" -> "0.9"
      [] lexeme = "1.50" -> "1.5"
      [] OTHER -> lexeme

IsScalar(tok) == tok.t \in {"str", "num", "lit"}

ScalarValue(tok) ==
    CASE tok.t = "str" -> Str(tok.v)
      [] tok.t = "num" -> Num(NumValue(tok.v))
      [] OTHER -> Lit(tok.v)

BadValue == [ok |-> FALSE, next |-> 0, val |-> None]
BadMembers == [ok |-> FALSE, next |-> 0, d |-> EmptyDict]

\* elements of an array after "[", up to and including "]"
RECURSIVE ParseElems(_, _, _)
ParseElems(toks, i, acc) ==
    IF i + 1 > Len(toks) \/ ~IsScalar(toks[i]) THEN BadValue
    ELSE IF toks[i + 1] = P("]")
         THEN [ok |-> TRUE, next |-> i + 2, val |-> List(Append(acc, toks[i].v))]
    ELSE IF toks[i + 1] = P(",")
         THEN ParseElems(toks, i + 2, Append(acc, toks[i].v))
    ELSE BadValue

\* a scalar or an array of scalars starting at token i
ParseValue(toks, i) ==
    IF i > Len(toks) THEN BadValue
    ELSE IF IsScalar(toks[i])
         THEN [ok |-> TRUE, next |-> i + 1, val |-> ScalarValue(toks[i])]
    ELSE IF toks[i] = P("[")
         THEN IF i + 1 <= Len(toks) /\ toks[i + 1] = P("]")
              THEN [ok |-> TRUE, next |-> i + 2, val |-> List(<<>>)]
              ELSE ParseElems(toks, i + 1, <<>>)
    ELSE BadValue

\* members of an object after "{", up to and including "}"
RECURSIVE ParseMembers(_, _, _)
ParseMembers(toks, i, d) ==
    IF i + 1 > Len(toks) \/ toks[i].t # "str" \/ toks[i + 1] # P(":")
    THEN BadMembers
    ELSE LET r == ParseValue(toks, i + 2)
         IN  IF ~r.ok \/ r.next > Len(toks) THEN BadMembers
             ELSE IF toks[r.next] = P("}")
                  THEN [ok |-> TRUE, next |-> r.next + 1,
                        d |-> DictSet(d, toks[i].v, r.val)]
             ELSE IF toks[r.next] = P(",")
                  THEN ParseMembers(toks, r.next + 1, DictSet(d, toks[i].v, r.val))
             ELSE BadMembers

\* json.loads(response_text): kind "invalid" stands for JSONDecodeError,
\* "dict" for a parsed object (in d), "other" for any other parsed value (in val)
json_loads(toks) ==
    IF toks = <<>> THEN [kind |-> "invalid", d |-> EmptyDict, val |-> None]
    ELSE IF toks[1] = P("{")
    THEN LET r == IF Len(toks) >= 2 /\ toks[2] = P("}")
                  THEN [ok |-> TRUE, next |-> 3, d |-> EmptyDict]
                  ELSE ParseMembers(toks, 2, EmptyDict)
         IN  IF r.ok /\ r.next = Len(toks) + 1
             THEN [kind |-> "dict", d |-> r.d, val |-> None]
             ELSE [kind |-> "invalid", d |-> EmptyDict, val |-> None]
    ELSE LET r == ParseValue(toks, 1)
         IN  IF r.ok /\ r.next = Len(toks) + 1
             THEN [kind |-> "other", d |-> EmptyDict, val |-> r.val]
             ELSE [kind |-> "invalid", d |-> EmptyDict, val |-> None]

\* the properties of intent_response_schema, in their order
KeyOrder == <<"intent", "nextAgent", "confidence", "reasoning",
              "requiresMultipleAgents", "additionalAgents">>
RequiredKeys == {"intent", "nextAgent", "confidence", "reasoning"}

RECURSIVE EncodeItems(_)
EncodeItems(xs) ==
    IF xs = <<>> THEN <<>>
    ELSE IF Len(xs) = 1 THEN <<Tok("str", xs[1])>>
    ELSE <<Tok("str", xs[1]), P(",")>> \o EncodeItems(Tail(xs))

\* the service writing one value; "padded" writes numbers with a trailing zero
EncodeValue(val, style) ==
    CASE val.ty = "list" -> <<P("[")>> \o EncodeItems(val.items) \o <<P("]")>>
      [] val.ty = "num" ->
            <<Tok("num", IF style = "padded" /\ val.v \in {"0.9", "1.5"}
                         THEN IF val.v = "0.9" THEN "0.90" ELSE "1.50"
                         ELSE val.v)>>
      [] val.ty = "str" -> <<Tok("str", val.v)>>
      [] OTHER -> <<Tok("lit", val.v)>>

RECURSIVE EncodeMembers(_, _, _, _)
EncodeMembers(obj, keys, first, style) ==
    IF keys = <<>> THEN <<>>
    ELSE IF Head(keys) \notin DOMAIN obj
         THEN EncodeMembers(obj, Tail(keys), first, style)
    ELSE (IF first THEN <<>> ELSE <<P(",")>>)
         \o <<Tok("str", Head(keys)), P(":")>>
         \o EncodeValue(obj[Head(keys)], style)
         \o EncodeMembers(obj, Tail(keys), FALSE, style)

\* the service writing an Intent Classification Result
Encode(obj, style) ==
    <<P("{")>> \o EncodeMembers(obj, KeyOrder, TRUE, style) \o <<P("}")>>

----------------------------------------------------------------------------
(* What the remote services may answer *)

Absent == [ty |-> "absent", v |-> "", items |-> <<>>]

\* per field of the Intent Classification Result: left out, or one of a few values
PayloadChoices ==
    [ intent : {Absent, Str("dispatch_confirm")},
      nextAgent : {Absent, Str("CommunicationAgent")},
      confidence : {Absent, Num("0.9"), Num("1.5")},
      reasoning : {Absent, Str("user confirmed")},
      requiresMultipleAgents : {Absent, Lit("true"), Lit("false")},
      additionalAgents : {Absent, List(<<>>), List(<<"WeatherAgent">>)} ]

Obj(c) == [k \in {x \in DOMAIN c : c[x] # Absent} |-> c[k]]

PayloadObjs == { Obj(c) : c \in PayloadChoices }

\* objects whose values are not of the schema's types
OddObjs ==
    { [intent |-> None, nextAgent |-> Str("WeatherAgent"),
       confidence |-> Str("high"), reasoning |-> Str("")],
      [intent |-> Str("N/A"), nextAgent |-> Str("unknown"),
       confidence |-> Num("0"), reasoning |-> Str("None"),
       requiresMultipleAgents |-> Str("yes")] }

\* an object as intent_response_schema describes it
WellFormed(o) ==
    /\ RequiredKeys \subseteq DOMAIN o
    /\ o.intent.ty = "str" /\ o.nextAgent.ty = "str"
    /\ o.confidence.ty = "num" /\ o.reasoning.ty = "str"
    /\ "requiresMultipleAgents" \in DOMAIN o => o.requiresMultipleAgents.ty = "lit"
    /\ "additionalAgents" \in DOMAIN o => o.additionalAgents.ty = "list"

\* JSON documents that are not objects
NonObjectTexts ==
    { <<P("["), P("]")>>,
      <<P("["), Tok("str", "WeatherAgent"), P("]")>>,
      <<Tok("str", "dispatch_confirm")>>,
      <<Tok("num", "1")>>,
      <<Tok("lit", "null")>> }

\* texts that are not JSON documents
InvalidTexts ==
    { <<>>,
      <<Tok("word", "Sure")>>,
      <<P("{"), Tok("str", "intent"), P(":"), Tok("str", "weather_query")>>,
      <<P("{"), Tok("str", "intent"), P(":"), Tok("str", "weather_query"),
        P(","), P("}")>>,
      <<P("{"), Tok("str", "intent"), Tok("str", "weather_query"), P("}")>>,
      <<P("{"), Tok("str", "intent"), P(":"), Tok("word", "True"), P("}")>>,
      <<P("{"), P("}"), Tok("word", "Thanks")>>,
      <<P("["), Tok("str", "a"), P(",")>> }

\* response.output_text of the intent agent, with what the service meant by it
IntentResponses ==
    { [kind |-> "object", fields |-> o, text |-> Encode(o, "plain")] :
        o \in PayloadObjs \cup OddObjs }
    \cup { [kind |-> "object", fields |-> o, text |-> Encode(o, "padded")] :
        o \in { x \in PayloadObjs : RequiredKeys \subseteq DOMAIN x } }
    \cup { [kind |-> "other", fields |-> EmptyDict, text |-> t] :
        t \in NonObjectTexts }
    \cup { [kind |-> "invalid", fields |-> EmptyDict, text |-> t] :
        t \in InvalidTexts }

NoResponse == [kind |-> "none", fields |-> EmptyDict, text |-> <<>>]

\* events of a response stream
Event(type, delta, id) == [type |-> type, delta |-> delta, id |-> id]

StreamEvents ==
    { Event("response.created", <<>>, "resp_1"),
      Event("response.output_text.delta", <<"O", "K">>, ""),
      Event("response.output_text.delta", <<"!">>, ""),
      Event("response.in_progress", <<>>, ""),
      Event("response.completed", <<>>, "") }

\* str(e) of the exceptions a remote call may raise
ErrorMessages ==
    { "Connection timed out", "401 Unauthorized" }

----------------------------------------------------------------------------
(* Configuration read from the environment *)

Clients == {"callPromptAgent", "callDetectIntentAgent", "callFabricAgent"}
StreamingClients == {"callPromptAgent", "callFabricAgent"}
AgentSetups == {"createDetectIntentAgent", "createPromptAgentWithFabric",
                "createPromptAgentWithFoundryIQ"}
Scripts == Clients \cup AgentSetups
           \cup {"createFoundryIQMCPConnection", "createKnowledgeBaseFromBlobStorage"}

\* the variables each script reads without a default
Required(s) ==
    CASE s = "callPromptAgent" ->
            {"AZURE_AI_PROJECT_ENDPOINT", "PROMPT_AGENT_NAME"}
      [] s = "callDetectIntentAgent" -> {"AZURE_AI_PROJECT_ENDPOINT"}
      [] s = "callFabricAgent" -> {"AZURE_AI_PROJECT_ENDPOINT"}
      [] s = "createDetectIntentAgent" ->
            {"AZURE_AI_PROJECT_ENDPOINT", "AZURE_AI_MODEL_DEPLOYMENT_NAME"}
      [] s = "createPromptAgentWithFabric" ->
            {"AZURE_AI_PROJECT_ENDPOINT", "AZURE_AI_MODEL_DEPLOYMENT_NAME",
             "FABRIC_PROJECT_CONNECTION_NAME"}
      [] s = "createPromptAgentWithFoundryIQ" ->
            {"AZURE_AI_PROJECT_ENDPOINT", "AZURE_AI_MODEL_DEPLOYMENT_NAME",
             "MCP_TOOL_CONNECTION_NAME", "PROMPT_AGENT_NAME",
             "FOUNDRY_KNOWLEDGE_BASE_MCP_URL"}
      [] s = "createFoundryIQMCPConnection" ->
            {"AZURE_AI_PROJECT_RESOURCE_ID", "MCP_TOOL_CONNECTION_NAME",
             "FOUNDRY_KNOWLEDGE_BASE_MCP_URL", "AI_SEARCH_API_KEY"}
      [] OTHER ->
            {"AZURE_SEARCH_ENDPOINT", "AZURE_BLOB_STORAGE_RESOURCE_ID",
             "AZURE_OPENAI_ENDPOINT"}

\* the agent-name variable a script reads with a default
NameVariable(s) ==
    CASE s = "callDetectIntentAgent" -> {"DETECT_INTENT_AGENT_NAME"}
      [] s = "callFabricAgent" -> {"FABRIC_AGENT_NAME"}
      [] s = "createDetectIntentAgent" -> {"DETECT_INTENT_AGENT_NAME"}
      [] s = "createPromptAgentWithFabric" -> {"FABRIC_AGENT_NAME"}
      [] OTHER -> {}

\* the variables whose absence the script itself turns into an error:
\* `if not PROJECT_ENDPOINT: raise`, `if missing_vars: raise`, os.environ[...]
Validated(s) ==
    CASE s = "callDetectIntentAgent" -> {"AZURE_AI_PROJECT_ENDPOINT"}
      [] s = "callFabricAgent" -> {"AZURE_AI_PROJECT_ENDPOINT"}
      [] s = "createDetectIntentAgent" ->
            {"AZURE_AI_PROJECT_ENDPOINT", "AZURE_AI_MODEL_DEPLOYMENT_NAME"}
      [] s = "createPromptAgentWithFabric" ->
            {"AZURE_AI_PROJECT_ENDPOINT", "AZURE_AI_MODEL_DEPLOYMENT_NAME",
             "FABRIC_PROJECT_CONNECTION_NAME"}
      [] s = "createKnowledgeBaseFromBlobStorage" ->
            {"AZURE_SEARCH_ENDPOINT", "AZURE_BLOB_STORAGE_RESOURCE_ID",
             "AZURE_OPENAI_ENDPOINT"}
      [] OTHER -> {}

\* the name None reads as when it is formatted into a request
NoName == "None"

\* AGENT_NAME / agent_name after os.getenv
AGENT_NAME(s, e) ==
    CASE s \in {"callPromptAgent", "createPromptAgentWithFoundryIQ"} ->
            IF "PROMPT_AGENT_NAME" \in e THEN "kb-agent" ELSE NoName
      [] s \in {"callDetectIntentAgent", "createDetectIntentAgent"} ->
            IF "DETECT_INTENT_AGENT_NAME" \in e
            THEN "my-intent-agent" ELSE "DetectUserIntentAgent"
      [] s = "callFabricAgent" ->
            IF "FABRIC_AGENT_NAME" \in e THEN "my-fabric-agent" ELSE "FabricDataAgent"
      [] s = "createPromptAgentWithFabric" ->
            IF "FABRIC_AGENT_NAME" \in e THEN "my-fabric-agent" ELSE "AECDataAgent"
      [] OTHER -> NoName

\* what client.agents.list_versions(agent_name=name) may return, latest first
Version(name, version, id) == [name |-> name, version |-> version, id |-> id]
NoAgent == Version("", "", "")

VersionListings(name) ==
    { <<>>,
      <<Version(name, "2", "agent:2"), Version(name, "1", "agent:1")>>,
      <<Version(name, "1", "")>> }

----------------------------------------------------------------------------
(* Terminal output and span attributes *)

\* one print(...) call: what is printed and the value shown in it
Line(k, val) == [k |-> k, val |-> val]

\* a text held as the tokens it consists of
Raw(text) == [ty |-> "text", v |-> "", items |-> text]

\* the attribute under which a client records the user's text
UserKey(s) == IF s = "callDetectIntentAgent" THEN "user.message" ELSE "user.question"

\* the attributes set right after the span is started
StartSpan(s, ag, msg) ==
    ("agent.name" :> Str(ag.name))
    @@ ("agent.version" :> Str(ag.version))
    @@ ("agent.id" :> Str(IF ag.id # "" THEN ag.id ELSE "unknown"))
    @@ (UserKey(s) :> Chars(msg))

\* a plausible slip: the request carries the line as typed, not the trimmed text
RequestFor_untrimmed(s, ag, msg) ==
    [input |-> rawLine, agent |-> ag.name, type |-> "agent_reference",
     stream |-> s \in StreamingClients,
     tool_choice |-> IF s = "callFabricAgent" THEN "required" ELSE ""]

\* the arguments of openai_client.responses.create(...)
RequestFor(s, ag, msg) ==
    [input |-> msg, agent |-> ag.name, type |-> "agent_reference",
     stream |-> s \in StreamingClients,
     tool_choice |-> IF s = "callFabricAgent" THEN "required" ELSE ""]

\* the troubleshooting hint of the Fabric client for an error message
Hints(s, error_msg) ==
    IF s # "callFabricAgent" THEN <<>>
    ELSE CASE error_msg = "401 Unauthorized" ->
                <<Line("Hint", Str("access to the Fabric Data Agent"))>>
           [] error_msg = "Agent not found" ->
                <<Line("Hint", Str("published and active"))>>
           [] error_msg = "BadRequest: invalid artifact id" ->
                <<Line("Hint", Str("artifact ID and workspace ID"))>>
           [] OTHER -> <<>>

\* a plausible slip: the handler prints the error but does not record it
OnException_unrecorded(s, o, sp, error_msg) ==
    [out |-> Append(o, Line("Error", Str(error_msg))) \o Hints(s, error_msg),
     span |-> sp]

\* except Exception as e: print the message, record it on the span
OnException(s, o, sp, error_msg) ==
    [out |-> Append(o, Line("Error", Str(error_msg))) \o Hints(s, error_msg),
     span |-> DictSet(sp, "error", Str(error_msg))]

\* the three prints that open the Intent Classification Result
ResultHeader ==
    <<Line("rule", Str("")), Line("Intent Classification Result:", Str("")),
      Line("rule", Str(""))>>

\* a plausible slip: the intent is read under the key of the next agent
ResultLines_wrong_key(intent_result) ==
    ResultHeader
    \o <<Line("Intent", PyStr(get(intent_result, "nextAgent", Str("N/A")))),
         Line("Next Agent", PyStr(get(intent_result, "nextAgent", Str("N/A")))),
         Line("Confidence", PyStr(get(intent_result, "confidence", Str("N/A")))),
         Line("Reasoning", PyStr(get(intent_result, "reasoning", Str("N/A"))))>>
    \o (IF Truthy(get(intent_result, "requiresMultipleAgents", None))
        THEN <<Line("Additional Agents",
                    PyStr(get(intent_result, "additionalAgents", List(<<>>))))>>
        ELSE <<>>)
    \o <<Line("rule", Str(""))>>

\* a plausible slip: the list is shown whenever the payload carries one
ResultLines_when_listed(intent_result) ==
    ResultHeader
    \o <<Line("Intent", PyStr(get(intent_result, "intent", Str("N/A")))),
         Line("Next Agent", PyStr(get(intent_result, "nextAgent", Str("N/A")))),
         Line("Confidence", PyStr(get(intent_result, "confidence", Str("N/A")))),
         Line("Reasoning", PyStr(get(intent_result, "reasoning", Str("N/A"))))>>
    \o (IF "additionalAgents" \in DOMAIN intent_result
        THEN <<Line("Additional Agents",
                    PyStr(get(intent_result, "additionalAgents", List(<<>>))))>>
        ELSE <<>>)
    \o <<Line("rule", Str(""))>>

\* the prints of a parsed result
ResultLines(intent_result) ==
    ResultHeader
    \o <<Line("Intent", PyStr(get(intent_result, "intent", Str("N/A")))),
         Line("Next Agent", PyStr(get(intent_result, "nextAgent", Str("N/A")))),
         Line("Confidence", PyStr(get(intent_result, "confidence", Str("N/A")))),
         Line("Reasoning", PyStr(get(intent_result, "reasoning", Str("N/A"))))>>
    \o (IF Truthy(get(intent_result, "requiresMultipleAgents", None))
        THEN <<Line("Additional Agents",
                    PyStr(get(intent_result, "additionalAgents", List(<<>>))))>>
        ELSE <<>>)
    \o <<Line("rule", Str(""))>>

\* a plausible slip: a confidence above 1 is recorded as 1
IntentAttributes_clamped(sp, intent_result) ==
    DictSet(DictSet(DictSet(sp,
        "intent.category", get(intent_result, "intent", Str("unknown"))),
        "intent.next_agent", get(intent_result, "nextAgent", Str("unknown"))),
        "intent.confidence",
        IF get(intent_result, "confidence", Num("0")) = Num("1.5")
        THEN Num("1") ELSE get(intent_result, "confidence", Num("0")))

\* the span attributes of a parsed result
IntentAttributes(sp, intent_result) ==
    DictSet(DictSet(DictSet(sp,
        "intent.category", get(intent_result, "intent", Str("unknown"))),
        "intent.next_agent", get(intent_result, "nextAgent", Str("unknown"))),
        "intent.confidence", get(intent_result, "confidence", Num("0")))

\* a plausible slip: the fallback shows the text but flags nothing
OnJSONDecodeError_unflagged(o, sp, response_text) ==
    [out |-> Append(o, Line("Agent Response (not JSON)", Raw(response_text))),
     span |-> sp, raised |-> FALSE, error_msg |-> ""]

\* except json.JSONDecodeError
OnJSONDecodeError(o, sp, response_text) ==
    [out |-> Append(o, Line("Agent Response (not JSON)", Raw(response_text))),
     span |-> DictSet(sp, "error", Str("Invalid JSON response")),
     raised |-> FALSE, error_msg |-> ""]

\* str(e) of the AttributeError that .get raises on a value that is no dict
AttributeErrorMessage(val) ==
    CASE val.ty = "list" -> "'list' object has no attribute 'get'"
      [] val.ty = "str" -> "'str' object has no attribute 'get'"
      [] val.ty = "num" -> "'int' object has no attribute 'get'"
      [] OTHER -> "'NoneType' object has no attribute 'get'"

\* the body of the outer try after the call returned: record the raw text,
\* parse it, display it.  raised tells that an exception leaves the block.
ProcessResponse(o, sp, response_text) ==
    LET sp1 == DictSet(sp, "response.raw", Raw(response_text))
        parsed == json_loads(response_text)
    IN  CASE parsed.kind = "invalid" -> OnJSONDecodeError(o, sp1, response_text)
          [] parsed.kind = "dict" ->
                [out |-> o \o ResultLines(parsed.d),
                 span |-> IntentAttributes(sp1, parsed.d),
                 raised |-> FALSE, error_msg |-> ""]
          [] OTHER ->
                [out |-> o \o ResultHeader, span |-> sp1,
                 raised |-> TRUE, error_msg |-> AttributeErrorMessage(parsed.val)]

\* what the remote side reported for a call that raised
Failure(error_msg) ==
    [kind |-> "error", fields |-> EmptyDict, text |-> <<Tok("word", error_msg)>>]

----------------------------------------------------------------------------
(* Where the loop goes next *)

\* a plausible slip: `break` instead of `continue` on an empty line
AfterEmptyLine_break == "done"

\* `continue`: back to input()
AfterEmptyLine == "prompt"

\* a plausible slip: a failed turn ends the loop
AfterTurn_stop_on_failure(failed) == IF failed THEN "fatal" ELSE "prompt"

\* the end of the loop body, reached after the try/except: back to input()
AfterTurn(failed) == "prompt"

----------------------------------------------------------------------------
(* The initial state: a script is started in some environment *)

Init ==
    /\ script \in Scripts
    /\ env \in SUBSET (Required(script) \cup NameVariable(script))
    /\ pc = "start"
    /\ cause = "none"
    /\ network = 0
    /\ agent = NoAgent
    /\ lineNo = 0
    /\ rawLine = <<>>
    /\ user_message = <<>>
    /\ calls = <<>>
    /\ invocations = 0
    /\ span = EmptyDict
    /\ spans = 0
    /\ out = <<>>
    /\ response = NoResponse
    /\ full_response = <<>>
    /\ received = <<>>
    /\ created = <<>>

----------------------------------------------------------------------------
(* Startup of a script *)

\* the module-level configuration block: os.getenv / os.environ and the
\* validation that follows it
LoadConfig ==
    /\ pc = "start"
    /\ IF Validated(script) \ env # {}
       THEN pc' = "fatal" /\ cause' = "config"
       ELSE pc' = "configured" /\ cause' = cause
    /\ UNCHANGED <<script, env, network, agent, lineNo, rawLine, user_message,
                   calls, invocations, span, spans, out, response,
                   full_response, received, created>>

\* AIProjectClient(endpoint=...) / SearchIndexClient(endpoint=...): no request is
\* sent; an SDK handed None as endpoint may refuse it here or go on
CreateClient(refused) ==
    /\ pc = "configured"
    /\ script # "createFoundryIQMCPConnection"
    /\ refused => (Required(script) \cap {"AZURE_AI_PROJECT_ENDPOINT"}) \ env # {}
    /\ IF refused
       THEN pc' = "fatal" /\ cause' = "exception"
       ELSE pc' = "client_ready" /\ cause' = cause
    /\ UNCHANGED <<script, env, network, agent, lineNo, rawLine, user_message,
                   calls, invocations, span, spans, out, response,
                   full_response, received, created>>

\* a plausible slip: the last entry of the listing is taken, the oldest version
Startup_oldest(outcome, versions) ==
    /\ pc = "client_ready"
    /\ script \in Clients
    /\ outcome = "refused" => AGENT_NAME(script, env) = NoName
    /\ "AZURE_AI_PROJECT_ENDPOINT" \notin env => outcome \in {"refused", "list_fails"}
    /\ AGENT_NAME(script, env) = NoName => versions = <<>>
    /\ CASE outcome = "refused" ->
                /\ pc' = "fatal" /\ cause' = "exception"
                /\ UNCHANGED <<network, agent>>
         [] outcome = "list_fails" ->
                /\ pc' = "fatal" /\ cause' = "exception"
                /\ network' = network + 1
                /\ UNCHANGED agent
         [] outcome = "listed" /\ versions = <<>> ->
                /\ pc' = "fatal" /\ cause' = "no_versions"
                /\ network' = network + 1
                /\ UNCHANGED agent
         [] outcome = "telemetry_fails" /\ versions # <<>> ->
                /\ pc' = "fatal" /\ cause' = "exception"
                /\ network' = network + 2
                /\ agent' = versions[Len(versions)]
         [] outcome = "listed" /\ versions # <<>> ->
                /\ pc' = "prompt" /\ cause' = cause
                /\ network' = network + 3
                /\ agent' = versions[Len(versions)]
         [] OTHER -> FALSE
    /\ UNCHANGED <<script, env, lineNo, rawLine, user_message, calls,
                   invocations, span, spans, out, response, full_response,
                   received, created>>

\* a plausible slip: the listing is not checked for being empty
Startup_unchecked(outcome, versions) ==
    /\ pc = "client_ready"
    /\ script \in Clients
    /\ outcome = "refused" => AGENT_NAME(script, env) = NoName
    /\ "AZURE_AI_PROJECT_ENDPOINT" \notin env => outcome \in {"refused", "list_fails"}
    /\ AGENT_NAME(script, env) = NoName => versions = <<>>
    /\ CASE outcome = "refused" ->
                /\ pc' = "fatal" /\ cause' = "exception"
                /\ UNCHANGED <<network, agent>>
         [] outcome = "list_fails" ->
                /\ pc' = "fatal" /\ cause' = "exception"
                /\ network' = network + 1
                /\ UNCHANGED agent
         [] outcome = "listed" /\ versions = <<>> ->
                /\ pc' = "prompt" /\ cause' = cause
                /\ network' = network + 3
                /\ UNCHANGED agent
         [] outcome = "telemetry_fails" /\ versions # <<>> ->
                /\ pc' = "fatal" /\ cause' = "exception"
                /\ network' = network + 2
                /\ agent' = versions[1]
         [] outcome = "listed" /\ versions # <<>> ->
                /\ pc' = "prompt" /\ cause' = cause
                /\ network' = network + 3
                /\ agent' = versions[1]
         [] OTHER -> FALSE
    /\ UNCHANGED <<script, env, lineNo, rawLine, user_message, calls,
                   invocations, span, spans, out, response, full_response,
                   received, created>>

\* a client up to its first prompt: list the versions of the agent, take the
\* first, fetch the telemetry connection string and a token.  Without an
\* endpoint no listing comes back, and no agent is named None: such a
\* listing is refused by the SDK, fails, or is empty
Startup(outcome, versions) ==
    /\ pc = "client_ready"
    /\ script \in Clients
    /\ outcome = "refused" => AGENT_NAME(script, env) = NoName
    /\ "AZURE_AI_PROJECT_ENDPOINT" \notin env => outcome \in {"refused", "list_fails"}
    /\ AGENT_NAME(script, env) = NoName => versions = <<>>
    /\ CASE outcome = "refused" ->
                /\ pc' = "fatal" /\ cause' = "exception"
                /\ UNCHANGED <<network, agent>>
         [] outcome = "list_fails" ->
                /\ pc' = "fatal" /\ cause' = "exception"
                /\ network' = network + 1
                /\ UNCHANGED agent
         [] outcome = "listed" /\ versions = <<>> ->
                /\ pc' = "fatal" /\ cause' = "no_versions"
                /\ network' = network + 1
                /\ UNCHANGED agent
         [] outcome = "telemetry_fails" /\ versions # <<>> ->
                /\ pc' = "fatal" /\ cause' = "exception"
                /\ network' = network + 2
                /\ agent' = versions[1]
         [] outcome = "listed" /\ versions # <<>> ->
                /\ pc' = "prompt" /\ cause' = cause
                /\ network' = network + 3
                /\ agent' = versions[1]
         [] OTHER -> FALSE
    /\ UNCHANGED <<script, env, lineNo, rawLine, user_message, calls,
                   invocations, span, spans, out, response, full_response,
                   received, created>>

\* the requests an agent setup sends: connections.get (Fabric only), create_version
SetupCalls(s) == IF s = "createPromptAgentWithFabric" THEN 2 ELSE 1

\* an agent setup script after its client was created
CreateAgent(outcome, failing) ==
    /\ pc = "client_ready"
    /\ script \in AgentSetups
    /\ outcome = "refused" => Required(script) \ env # {}
    /\ failing \in 1..SetupCalls(script)
    /\ CASE outcome = "refused" ->
                /\ pc' = "fatal" /\ cause' = "exception"
                /\ UNCHANGED <<network, out>>
         [] outcome = "fails" ->
                /\ pc' = "fatal" /\ cause' = "exception"
                /\ network' = network + failing
                /\ out' = IF failing = 2
                          THEN <<Line("Fabric connection ID", Str(""))>> ELSE <<>>
         [] OTHER ->
                /\ pc' = "done" /\ cause' = "completed"
                /\ network' = network + SetupCalls(script)
                /\ out' = <<Line("Agent created", Str(AGENT_NAME(script, env)))>>
    /\ UNCHANGED <<script, env, agent, lineNo, rawLine, user_message, calls,
                   invocations, span, spans, response, full_response,
                   received, created>>

\* createFoundryIQMCPConnection: requests.put(...) is attempted whatever the
\* environment holds; without a resource id the URL names no host
\* ("management.azure.comNone"), so the attempt raises and no request leaves;
\* otherwise the status decides only which message is printed
PutConnection(status) ==
    /\ pc = "configured"
    /\ script = "createFoundryIQMCPConnection"
    /\ "AZURE_AI_PROJECT_RESOURCE_ID" \notin env => status = "raised"
    /\ network' = IF "AZURE_AI_PROJECT_RESOURCE_ID" \in env
                  THEN network + 1 ELSE network
    /\ IF status = "raised"
       THEN /\ pc' = "fatal" /\ cause' = "exception"
            /\ out' = <<Line("Creating connection at", Str(""))>>
       ELSE /\ pc' = "done" /\ cause' = "completed"
            /\ out' = <<Line("Creating connection at", Str("")),
                        Line("Status Code", Str(status)),
                        IF status \in {"200", "201"}
                        THEN Line("created or updated successfully", Str(""))
                        ELSE Line("Failed to create connection.", Str(""))>>
    /\ UNCHANGED <<script, env, agent, lineNo, rawLine, user_message, calls,
                   invocations, span, spans, response, full_response,
                   received, created>>

\* a plausible slip: the indexer is created before what it references
KbResources_indexer_first == <<"index", "indexer", "datasource", "skillset",
                               "knowledge_source", "knowledge_base">>

\* the resources main() of the knowledge-base setup creates, in its order
KbResources == <<"index", "datasource", "skillset", "indexer",
                 "knowledge_source", "knowledge_base">>

\* one create_* call of main(): an exception of the call leaves main()
CreateResource(ok) ==
    /\ pc = "client_ready"
    /\ script = "createKnowledgeBaseFromBlobStorage"
    /\ Len(created) < Len(KbResources)
    /\ network' = network + 1
    /\ IF ok
       THEN /\ created' = Append(created, KbResources[Len(created) + 1])
            /\ out' = Append(out, Line("created or updated", Str(KbResources[Len(created) + 1])))
            /\ UNCHANGED <<pc, cause>>
       ELSE /\ pc' = "fatal" /\ cause' = "exception"
            /\ UNCHANGED <<created, out>>
    /\ UNCHANGED <<script, env, agent, lineNo, rawLine, user_message, calls,
                   invocations, span, spans, response, full_response, received>>

\* a plausible slip: run_indexer() without its try/except
AskRunIndexer_uncaught(line, ok) ==
    /\ pc = "client_ready"
    /\ script = "createKnowledgeBaseFromBlobStorage"
    /\ Len(created) = Len(KbResources)
    /\ lineNo' = lineNo + 1
    /\ rawLine' = line
    /\ IF lower(strip(line)) = <<"y">>
       THEN /\ network' = network + 1
            /\ out' = IF ok THEN <<Line("Indexer started", Str("")),
                                   Line("Knowledge Base setup complete!", Str(""))>>
                            ELSE <<>>
            /\ pc' = IF ok THEN "done" ELSE "fatal"
            /\ cause' = IF ok THEN "completed" ELSE "exception"
       ELSE /\ ok
            /\ network' = network
            /\ out' = <<Line("Knowledge Base setup complete!", Str(""))>>
            /\ pc' = "done"
            /\ cause' = "completed"
    /\ UNCHANGED <<script, env, agent, user_message, calls, invocations, span,
                   spans, response, full_response, received, created>>

\* the end of main(): ask whether to run the indexer, run_indexer() on "y"
AskRunIndexer(line, ok) ==
    /\ pc = "client_ready"
    /\ script = "createKnowledgeBaseFromBlobStorage"
    /\ Len(created) = Len(KbResources)
    /\ lineNo' = lineNo + 1
    /\ rawLine' = line
    /\ IF lower(strip(line)) = <<"y">>
       THEN /\ network' = network + 1
            /\ out' = <<IF ok THEN Line("Indexer started", Str(""))
                              ELSE Line("Could not start indexer", Str("")),
                        Line("Knowledge Base setup complete!", Str(""))>>
       ELSE /\ ok
            /\ network' = network
            /\ out' = <<Line("Knowledge Base setup complete!", Str(""))>>
    /\ pc' = "done"
    /\ cause' = "completed"
    /\ UNCHANGED <<script, env, agent, user_message, calls, invocations, span,
                   spans, response, full_response, received, created>>

\* answers to "Do you want to run the indexer now? (y/n): "
Answers == { <<"y">>, <<" ", "Y", "\t">>, <<"n">>, <<"y", "e", "s">>, <<>> }

----------------------------------------------------------------------------
(* The interactive loop of the three clients *)

\* one pass from input() to the point where the loop body blocks again:
\* an empty line continues, an exit token breaks, any other line starts a
\* span and sends the request
ReadLine(line) ==
    /\ pc = "prompt"
    /\ lineNo < MaxLines
    /\ lineNo' = lineNo + 1
    /\ rawLine' = line
    /\ user_message' = strip(line)
    /\ response' = NoResponse
    /\ received' = <<>>
    /\ LET msg == strip(line)
       IN  IF IsEmpty(msg)
           THEN /\ pc' = AfterEmptyLine
                /\ calls' = <<>>
                /\ span' = EmptyDict
                /\ out' = <<>>
                /\ UNCHANGED <<cause, network, invocations, spans>>
           ELSE IF IsExitToken(msg)
           THEN /\ pc' = "done"
                /\ cause' = "exit_token"
                /\ calls' = <<>>
                /\ span' = EmptyDict
                /\ out' = <<Line("Goodbye!", Str(""))>>
                /\ UNCHANGED <<network, invocations, spans>>
           ELSE /\ pc' = "awaiting"
                /\ span' = StartSpan(script, agent, msg)
                /\ spans' = spans + 1
                /\ out' = IF script \in StreamingClients
                          THEN <<Line("Agent: ", Str(""))>> ELSE <<>>
                /\ calls' = <<RequestFor(script, agent, msg)>>
                /\ invocations' = invocations + 1
                /\ network' = network + 1
                /\ UNCHANGED cause
    /\ UNCHANGED <<script, env, agent, full_response, created>>

\* a plausible slip: the handler sends the request again
CallFails_retry(error_msg) ==
    /\ pc = "awaiting"
    /\ Len(calls) < 3
    /\ calls' = Append(calls, RequestFor(script, agent, user_message))
    /\ invocations' = invocations + 1
    /\ network' = network + 1
    /\ out' = OnException(script, out, span, error_msg).out
    /\ span' = OnException(script, out, span, error_msg).span
    /\ response' = Failure(error_msg)
    /\ UNCHANGED <<script, env, pc, cause, agent, lineNo, rawLine, user_message,
                   spans, full_response, received, created>>

\* responses.create(...) raises: the except block of the turn runs
CallFails(error_msg) ==
    /\ pc = "awaiting"
    /\ out' = OnException(script, out, span, error_msg).out
    /\ span' = OnException(script, out, span, error_msg).span
    /\ response' = Failure(error_msg)
    /\ pc' = AfterTurn(TRUE)
    /\ cause' = IF AfterTurn(TRUE) = "fatal" THEN "exception" ELSE cause
    /\ UNCHANGED <<script, env, network, agent, lineNo, rawLine, user_message,
                   calls, invocations, spans, full_response, received, created>>

\* intent client: responses.create(...) returns; the text is parsed and shown
CallReturns(resp) ==
    /\ pc = "awaiting"
    /\ script = "callDetectIntentAgent"
    /\ response' = resp
    /\ LET r == ProcessResponse(out, span, resp.text)
           h == OnException(script, r.out, r.span, r.error_msg)
       IN  /\ out' = IF r.raised THEN h.out ELSE r.out
           /\ span' = IF r.raised THEN h.span ELSE r.span
           /\ pc' = AfterTurn(r.raised)
           /\ cause' = IF AfterTurn(r.raised) = "fatal" THEN "exception" ELSE cause
    /\ UNCHANGED <<script, env, network, agent, lineNo, rawLine, user_message,
                   calls, invocations, spans, full_response, received, created>>

\* the positions of the completion markers among the events
Completions(evs) == { i \in 1..Len(evs) : evs[i].type = "response.completed" }

\* the event sequences a response stream may deliver
Streams == SeqsUpTo(StreamEvents, MaxEvents)

\* the stream a call returned, with the events it will deliver
Stream(events) == [kind |-> "stream", fields |-> EmptyDict, text |-> events]

\* a plausible slip: full_response is initialised once, before the loop
StreamOpens_keeps_text(events) ==
    /\ pc = "awaiting"
    /\ script \in StreamingClients
    /\ pc' = "streaming"
    /\ response' = Stream(events)
    /\ UNCHANGED <<script, env, cause, network, agent, lineNo, rawLine,
                   user_message, calls, invocations, span, spans, out,
                   full_response, received, created>>

\* streaming clients: responses.create(stream=True, ...) returns the stream
StreamOpens(events) ==
    /\ pc = "awaiting"
    /\ script \in StreamingClients
    /\ pc' = "streaming"
    /\ response' = Stream(events)
    /\ full_response' = <<>>
    /\ UNCHANGED <<script, env, cause, network, agent, lineNo, rawLine,
                   user_message, calls, invocations, span, spans, out,
                   received, created>>

\* a plausible slip: the length is also recorded with every fragment
OnEvent_length_on_delta(event, o, sp, text) ==
    CASE event.type = "response.created" ->
            [out |-> o, span |-> DictSet(sp, "response.id", Str(event.id)),
             full_response |-> text]
      [] event.type = "response.output_text.delta" ->
            [out |-> Append(o, Line("delta", Chars(event.delta))),
             span |-> DictSet(sp, "response.output_length",
                              PyInt(Len(text \o event.delta))),
             full_response |-> text \o event.delta]
      [] event.type = "response.completed" ->
            [out |-> o,
             span |-> DictSet(sp, "response.output_length", PyInt(Len(text))),
             full_response |-> text]
      [] OTHER -> [out |-> o, span |-> sp, full_response |-> text]

\* what one pass of the loop does with its event
OnEvent(event, o, sp, text) ==
    CASE event.type = "response.created" ->
            [out |-> o, span |-> DictSet(sp, "response.id", Str(event.id)),
             full_response |-> text]
      [] event.type = "response.output_text.delta" ->
            [out |-> Append(o, Line("delta", Chars(event.delta))), span |-> sp,
             full_response |-> text \o event.delta]
      [] event.type = "response.completed" ->
            [out |-> o,
             span |-> DictSet(sp, "response.output_length", PyInt(Len(text))),
             full_response |-> text]
      [] OTHER -> [out |-> o, span |-> sp, full_response |-> text]

\* one pass of `for event in stream_response`: the next event of the stream
StreamEvent ==
    /\ pc = "streaming"
    /\ Len(received) < Len(response.text)
    /\ LET event == response.text[Len(received) + 1]
           r == OnEvent(event, out, span, full_response)
       IN  /\ received' = Append(received, event)
           /\ out' = r.out
           /\ span' = r.span
           /\ full_response' = r.full_response
    /\ UNCHANGED <<script, env, pc, cause, network, agent, lineNo, rawLine,
                   user_message, calls, invocations, spans, response, created>>

\* a plausible slip: the loop is left only once a completion marker was seen
StreamEnds_awaits_completion ==
    /\ pc = "streaming"
    /\ Len(received) = Len(response.text)
    /\ Completions(received) # {}
    /\ out' = Append(out, Line("newline", Str("")))
    /\ pc' = AfterTurn(FALSE)
    /\ UNCHANGED <<script, env, cause, network, agent, lineNo, rawLine,
                   user_message, calls, invocations, span, spans, response,
                   full_response, received, created>>

\* a plausible slip: the loop is left at the first completion marker
StreamEnds_at_completion ==
    /\ pc = "streaming"
    /\ \/ Len(received) = Len(response.text)
       \/ Completions(received) # {}
    /\ out' = Append(out, Line("newline", Str("")))
    /\ pc' = AfterTurn(FALSE)
    /\ UNCHANGED <<script, env, cause, network, agent, lineNo, rawLine,
                   user_message, calls, invocations, span, spans, response,
                   full_response, received, created>>

\* the stream is exhausted: print() and the end of the loop body
StreamEnds ==
    /\ pc = "streaming"
    /\ Len(received) = Len(response.text)
    /\ out' = Append(out, Line("newline", Str("")))
    /\ pc' = AfterTurn(FALSE)
    /\ UNCHANGED <<script, env, cause, network, agent, lineNo, rawLine,
                   user_message, calls, invocations, span, spans, response,
                   full_response, received, created>>

\* a plausible slip: the handler records the length of what had arrived
StreamFails_records_length(error_msg) ==
    /\ pc = "streaming"
    /\ out' = OnException(script, out, span, error_msg).out
    /\ span' = DictSet(OnException(script, out, span, error_msg).span,
                       "response.output_length", PyInt(Len(full_response)))
    /\ response' = Failure(error_msg)
    /\ pc' = AfterTurn(TRUE)
    /\ cause' = IF AfterTurn(TRUE) = "fatal" THEN "exception" ELSE cause
    /\ UNCHANGED <<script, env, network, agent, lineNo, rawLine, user_message,
                   calls, invocations, spans, full_response, received, created>>

\* the stream raises while it is iterated: the except block of the turn runs
StreamFails(error_msg) ==
    /\ pc = "streaming"
    /\ out' = OnException(script, out, span, error_msg).out
    /\ span' = OnException(script, out, span, error_msg).span
    /\ response' = Failure(error_msg)
    /\ pc' = AfterTurn(TRUE)
    /\ cause' = IF AfterTurn(TRUE) = "fatal" THEN "exception" ELSE cause
    /\ UNCHANGED <<script, env, network, agent, lineNo, rawLine, user_message,
                   calls, invocations, spans, full_response, received, created>>

\* the process is interrupted while the loop runs: KeyboardInterrupt, or
\* EOFError out of input(); neither is caught by `except Exception` of a turn
\* in progress or raised inside a try at the prompt
Interrupt ==
    /\ pc \in {"prompt", "awaiting", "streaming"}
    /\ pc' = "interrupted"
    /\ cause' = "interrupted"
    /\ UNCHANGED <<script, env, network, agent, lineNo, rawLine, user_message,
                   calls, invocations, span, spans, out, response,
                   full_response, received, created>>

----------------------------------------------------------------------------

Next ==
    \/ LoadConfig
    \/ \E refused \in BOOLEAN : CreateClient(refused)
    \/ \E outcome \in {"refused", "list_fails", "telemetry_fails", "listed"},
          versions \in VersionListings(AGENT_NAME(script, env)) :
            Startup(outcome, versions)
    \/ \E outcome \in {"refused", "fails", "created"}, failing \in 1..2 :
            CreateAgent(outcome, failing)
    \/ \E status \in {"200", "201", "401", "raised"} : PutConnection(status)
    \/ \E ok \in BOOLEAN : CreateResource(ok)
    \/ \E line \in Answers, ok \in BOOLEAN : AskRunIndexer(line, ok)
    \/ \E line \in InputLines : ReadLine(line)
    \/ \E error_msg \in ErrorMessages : CallFails(error_msg)
    \/ \E resp \in IntentResponses : CallReturns(resp)
    \/ \E events \in Streams : StreamOpens(events)
    \/ StreamEvent
    \/ StreamEnds
    \/ \E error_msg \in ErrorMessages : StreamFails(error_msg)
    \/ Interrupt

Spec == Init /\ [][Next]_vars

\* the sessions followed to their end under the progress assumption: one
\* line of each kind (blank, exit token, forwarded) and one response of each
\* kind (an object, a JSON value that is no object, a text that is no JSON)
LiveLines == { <<" ">>, <<"q">>, <<" ", "H", "i", "\t">> }

LiveResponses ==
    { r \in IntentResponses :
        \/ r.kind = "object" /\ r.fields = EmptyDict
        \/ r.kind = "other" /\ r.text = <<P("["), P("]")>>
        \/ r.kind = "invalid" /\ r.text = <<>> }

LiveInit == Init /\ script \in Clients

\* the steps a turn in progress takes once the remote side has answered: the
\* call returns, fails or hands over a stream, the stream delivers its next
\* event, and the loop body runs to its end when the stream is exhausted
Respond ==
    \/ \E error_msg \in ErrorMessages : CallFails(error_msg)
    \/ \E resp \in LiveResponses : CallReturns(resp)
    \/ \E events \in Streams : StreamOpens(events)
    \/ StreamEvent
    \/ StreamEnds

LiveNext ==
    \/ LoadConfig
    \/ \E refused \in BOOLEAN : CreateClient(refused)
    \/ \E outcome \in {"refused", "list_fails", "telemetry_fails", "listed"},
          versions \in VersionListings(AGENT_NAME(script, env)) :
            Startup(outcome, versions)
    \/ \E line \in LiveLines : ReadLine(line)
    \/ Respond
    \/ \E error_msg \in ErrorMessages : StreamFails(error_msg)
    \/ Interrupt

\* the clients under the assumption that every remote call eventually
\* returns, fails, or delivers a finite event sequence
LiveSpec == LiveInit /\ [][LiveNext]_vars /\ WF_vars(Respond)

----------------------------------------------------------------------------
(* Vocabulary of the properties, stated without the operators of the model *)

BlankChars == {" ", "\t"}
ExitWords == { <<"e", "x", "i", "t">>, <<"q", "u", "i", "t">>, <<"q">> }
CasePairs == { <<"E", "e">>, <<"X", "x">>, <<"I", "i">>, <<"T", "t">>,
               <<"Q", "q">>, <<"U", "u">> }

IsBlank(line) == \A i \in 1..Len(line) : line[i] \in BlankChars

SameIgnoringCase(a, b) ==
    /\ Len(a) = Len(b)
    /\ \A i \in 1..Len(a) : a[i] = b[i] \/ <<a[i], b[i]>> \in CasePairs

\* the line is an exit word in some letter case, nothing else on it
IsExitWord(line) == \E w \in ExitWords : SameIgnoringCase(line, w)

\* t is line without its leading and trailing blanks
IsTrimOf(t, line) ==
    \E a \in 0..(Len(line) - Len(t)) :
        /\ t = SubSeq(line, a + 1, a + Len(t))
        /\ \A i \in 1..a : line[i] \in BlankChars
        /\ \A i \in (a + Len(t) + 1)..Len(line) : line[i] \in BlankChars
        /\ t = <<>> \/ (t[1] \notin BlankChars /\ t[Len(t)] \notin BlankChars)

\* the line is an exit word once its surrounding blanks are ignored
IsExitLine(line) ==
    \E w \in ExitWords : \E a \in 0..(Len(line) - Len(w)) :
        LET t == SubSeq(line, a + 1, a + Len(w))
        IN  IsTrimOf(t, line) /\ IsExitWord(t)

LoopPcs == {"prompt", "awaiting", "streaming"}
IntentKeys == {"intent.category", "intent.next_agent", "intent.confidence"}

Printed(k) == \E i \in 1..Len(out) : out[i].k = k
PrintedWith(k, text) == \E i \in 1..Len(out) : out[i].k = k /\ out[i].val = Str(text)

----------------------------------------------------------------------------
(* C1..C10 *)

\* C1: in every client loop a line that is "exit", "quit" or "q" in any letter
\* case ends the session and is not forwarded: the loop is left by the exit
\* branch, no request was issued for the line and no span was started for it.
C1_ExitWordEndsSessionUnforwarded ==
    (script \in Clients /\ lineNo > 0 /\ IsExitWord(rawLine)) =>
        /\ pc = "done"
        /\ cause = "exit_token"
        /\ calls = <<>>
        /\ span = EmptyDict
        /\ invocations < lineNo
        /\ out = <<Line("Goodbye!", Str(""))>>

C1_Witness ==
    /\ script \in Clients
    /\ lineNo = 2
    /\ rawLine = <<"Q", "U", "I", "T">>
    /\ pc = "done"
    /\ invocations = 1

\* C2: in every client loop a line that is empty or whitespace only issues no
\* request and starts no span, and the loop is at the prompt again.
C2_BlankLineIssuesNothing ==
    [][ (script \in Clients /\ lineNo' = lineNo + 1 /\ IsBlank(rawLine')) =>
            /\ pc' = "prompt"
            /\ invocations' = invocations
            /\ network' = network
            /\ spans' = spans
            /\ calls' = <<>>
            /\ span' = EmptyDict
            /\ out' = <<>> ]_vars

C2_Witness ==
    /\ script \in Clients
    /\ lineNo = 2
    /\ rawLine = <<" ", "\t">>
    /\ pc = "prompt"
    /\ invocations = 1
    /\ spans = 1

\* C3: when the remote call of a turn fails, the failure is caught in that turn,
\* its message is printed and recorded, and the loop is at the prompt again; no
\* exception ever leaves the loop once it has started.
C3_FailureCaughtLoopContinues ==
    /\ [](script \in Clients /\ lineNo > 0 => pc # "fatal")
    /\ [][ (script \in Clients /\ response.kind # "error" /\ response'.kind = "error") =>
            /\ pc' = "prompt"
            /\ cause' = "none"
            /\ \E m \in ErrorMessages :
                /\ response' = Failure(m)
                /\ \E i \in 1..Len(out') : out'[i].k = "Error" /\ out'[i].val = Str(m)
                /\ "error" \in DOMAIN span' /\ span'["error"] = Str(m)
            /\ lineNo' = lineNo
            /\ invocations' = invocations ]_vars

C3_Witness ==
    /\ script \in Clients
    /\ response.kind = "error"
    /\ pc = "prompt"
    /\ lineNo = 1
    /\ Printed("Error")
    /\ ENABLED (\E line \in InputLines : ReadLine(line))

\* C4: in the intent client a response text that is not valid JSON is shown as
\* a non-JSON response, the span gets the error attribute, no Intent
\* Classification Result is printed, no intent.* attribute is set, and the loop
\* is at the prompt again.
C4_InvalidJsonReportedUnparsed ==
    [][ (script = "callDetectIntentAgent" /\ response.kind = "none"
         /\ response'.kind = "invalid") =>
            /\ pc' = "prompt"
            /\ cause' = "none"
            /\ out' = <<Line("Agent Response (not JSON)", Raw(response'.text))>>
            /\ "error" \in DOMAIN span'
            /\ span'["error"] = Str("Invalid JSON response")
            /\ DOMAIN span' \cap IntentKeys = {} ]_vars

C4_Witness ==
    /\ script = "callDetectIntentAgent"
    /\ response.kind = "invalid"
    /\ Len(response.text) > 1
    /\ pc = "prompt"
    /\ "error" \in DOMAIN span

\* the label under which a field of the result is printed
Label(f) ==
    CASE f = "intent" -> "Intent"
      [] f = "nextAgent" -> "Next Agent"
      [] f = "confidence" -> "Confidence"
      [] OTHER -> "Reasoning"

\* C5: in the intent client, for every response that parses successfully, each
\* of intent, nextAgent, confidence and reasoning that the payload lacks is
\* displayed as "N/A", no error is printed and no error attribute is set.
C5_MissingFieldsShowSentinel ==
    (script = "callDetectIntentAgent" /\ response.kind \in {"object", "other"}) =>
        /\ \A f \in RequiredKeys :
              f \notin DOMAIN response.fields => PrintedWith(Label(f), "N/A")
        /\ ~Printed("Error")
        /\ "error" \notin DOMAIN span

\* C6: in the intent client, for every well-formed Intent Classification Result
\* the displayed intent, nextAgent, confidence and reasoning are the payload's
\* values, and intent.category, intent.next_agent and intent.confidence carry
\* the payload's intent, nextAgent and confidence.
C6_WellFormedExtractedVerbatim ==
    (script = "callDetectIntentAgent" /\ response.kind = "object"
     /\ WellFormed(response.fields)) =>
        /\ \A f \in RequiredKeys : PrintedWith(Label(f), response.fields[f].v)
        /\ IntentKeys \subseteq DOMAIN span
        /\ span["intent.category"] = response.fields.intent
        /\ span["intent.next_agent"] = response.fields.nextAgent
        /\ span["intent.confidence"] = response.fields.confidence

C6_Witness ==
    /\ script = "callDetectIntentAgent"
    /\ response.kind = "object"
    /\ WellFormed(response.fields)
    /\ \E i \in 1..Len(response.text) : response.text[i] = Tok("num", "0.90")
    /\ "additionalAgents" \in DOMAIN response.fields
    /\ pc = "prompt"

\* C7: in every script, when a required configuration value is absent from the
\* environment, the process fails before any network request is issued.
C7_MissingConfigFailsBeforeNetwork ==
    (Required(script) \ env # {}) => (network = 0 /\ pc # "done")

\* C8: a client loop is left only by the exit branch, on a line that is an exit
\* word once trimmed, or by an interruption; failures, malformed responses,
\* stream content and empty lines keep it running; after the exit nothing more
\* is read or sent.
C8_LoopEndsOnlyOnExitOrInterrupt ==
    /\ [][ (script \in Clients /\ pc \in LoopPcs /\ pc' \notin LoopPcs) =>
            \/ pc' = "interrupted" /\ cause' = "interrupted"
            \/ /\ pc = "prompt" /\ pc' = "done" /\ cause' = "exit_token"
               /\ lineNo' = lineNo + 1
               /\ IsExitLine(rawLine') ]_vars
    /\ [][ (script \in Clients /\ pc = "done") =>
            /\ pc' = "done"
            /\ lineNo' = lineNo
            /\ invocations' = invocations
            /\ network' = network ]_vars

C8_Witness ==
    /\ script \in Clients
    /\ pc = "done"
    /\ cause = "exit_token"
    /\ rawLine = <<" ", "E", "X", "I", "T", " ">>
    /\ lineNo = 2
    /\ invocations = 1

\* C9: nothing is retried: at most one request is issued per input line, and a
\* failed call or a malformed response issues no further request.
C9_AtMostOneCallPerLine ==
    /\ [](script \in Clients => Len(calls) <= 1 /\ invocations <= lineNo)
    /\ [][ (script \in Clients /\ response' # response
            /\ response'.kind \in {"error", "invalid", "other"}) =>
            /\ invocations' = invocations
            /\ network' = network
            /\ calls' = calls ]_vars

C9_Witness ==
    /\ script \in Clients
    /\ response.kind = "error"
    /\ pc = "prompt"
    /\ lineNo = 2
    /\ invocations = 2
    /\ Len(calls) = 1

\* C10: every line that is non-empty after trimming and is not an exit word is
\* forwarded: exactly one request is issued for it, its input is the trimmed
\* line and it names the agent resolved at startup.
C10_ForwardedOnceTrimmed ==
    (script \in Clients /\ lineNo > 0 /\ ~IsBlank(rawLine) /\ ~IsExitLine(rawLine)) =>
        /\ Len(calls) = 1
        /\ IsTrimOf(calls[1].input, rawLine)
        /\ calls[1].agent = agent.name
        /\ calls[1].type = "agent_reference"
        /\ agent # NoAgent

C10_Witness ==
    /\ script \in Clients
    /\ rawLine = <<" ", "H", "i", "\t">>
    /\ Len(calls) = 1
    /\ calls[1].input = <<"H", "i">>
    /\ lineNo = 2
    /\ invocations = 2
    /\ pc = "prompt"

----------------------------------------------------------------------------
(* C11..C20 *)

\* the values Python's `if` takes for false
FalsyValues == { Lit("false"), Lit("null"), Str(""), Num("0"), List(<<>>) }

\* the payload carries the flag with the JSON value true
FlagIsTrue(f) ==
    "requiresMultipleAgents" \in DOMAIN f /\ f.requiresMultipleAgents = Lit("true")

\* the payload carries the flag with a value an `if` takes for true
FlagIsTruthy(f) ==
    "requiresMultipleAgents" \in DOMAIN f /\ f.requiresMultipleAgents \notin FalsyValues

\* the Additional Agents line shows the list xs
ShowsAgents(xs) ==
    \E i \in 1..Len(out) : out[i].k = "Additional Agents" /\ out[i].val.items = xs
                            /\ out[i].val.v = "[]"

\* C11 as stated: in the intent client additionalAgents is displayed if and
\* only if the payload's requiresMultipleAgents is true; with the flag true and
\* no list an empty list is displayed; with the flag absent or false the list
\* is not displayed even if the payload carries one.
C11_ShownIffFlagTrue ==
    (script = "callDetectIntentAgent" /\ response.kind = "object") =>
        /\ Printed("Additional Agents") <=> FlagIsTrue(response.fields)
        /\ (FlagIsTrue(response.fields)
            /\ "additionalAgents" \notin DOMAIN response.fields) => ShowsAgents(<<>>)
        /\ ~Printed("Error")

\* C11 amended: in the intent client additionalAgents is displayed if and only
\* if the payload's requiresMultipleAgents is truthy (true, or a value of
\* another type that an `if` takes for true, such as a non-empty string); then
\* the payload's list is displayed, or an empty list when it is missing; with
\* the flag absent, false or otherwise falsy the list is not displayed even if
\* the payload carries one; the turn does not fail.
C11_ShownIffFlagTruthy ==
    (script = "callDetectIntentAgent" /\ response.kind = "object") =>
        LET f == response.fields
        IN  /\ Printed("Additional Agents") <=> FlagIsTruthy(f)
            /\ (FlagIsTruthy(f) /\ "additionalAgents" \notin DOMAIN f) =>
                    ShowsAgents(<<>>)
            /\ (FlagIsTruthy(f) /\ "additionalAgents" \in DOMAIN f
                /\ f.additionalAgents.ty = "list") =>
                    ShowsAgents(f.additionalAgents.items)
            /\ ~Printed("Error")
            /\ "error" \notin DOMAIN span

C11_Witness ==
    /\ script = "callDetectIntentAgent"
    /\ response.kind = "object"
    /\ "requiresMultipleAgents" \in DOMAIN response.fields
    /\ response.fields.requiresMultipleAgents = Str("yes")
    /\ "additionalAgents" \notin DOMAIN response.fields
    /\ ShowsAgents(<<>>)
    /\ pc = "prompt"

\* confidence values outside [0, 1]
OutOfRange == { Num("1.5") }

\* the payload breaks a rule the schema's descriptions state but nothing enforces
Inconsistent(f) ==
    \/ f.confidence \in OutOfRange
    \/ FlagIsTrue(f) /\ "additionalAgents" \notin DOMAIN f
    \/ ~FlagIsTrue(f) /\ "additionalAgents" \in DOMAIN f

\* the number of lines printed for a parsed payload: header, four fields, rule
ResultSize(f) == IF FlagIsTrue(f) THEN 9 ELSE 8

\* C12: the intent client validates nothing beyond field extraction: a payload
\* whose confidence is outside [0,1], or whose flag and list disagree, is
\* displayed and recorded like a consistent one: the four fields show the
\* payload's values, the intent.* attributes carry them unchanged, no error is
\* printed and no error attribute is set.
C12_InconsistentPayloadAccepted ==
    (script = "callDetectIntentAgent" /\ response.kind = "object"
     /\ WellFormed(response.fields) /\ Inconsistent(response.fields)) =>
        LET f == response.fields
        IN  /\ pc # "fatal"
            /\ Len(out) = ResultSize(f)
            /\ \A k \in RequiredKeys : PrintedWith(Label(k), f[k].v)
            /\ Printed("Additional Agents") <=> FlagIsTrue(f)
            /\ span["intent.category"] = f.intent
            /\ span["intent.next_agent"] = f.nextAgent
            /\ span["intent.confidence"] = f.confidence
            /\ ~Printed("Error")
            /\ ~Printed("Agent Response (not JSON)")
            /\ "error" \notin DOMAIN span

C12_Witness ==
    /\ script = "callDetectIntentAgent"
    /\ response.kind = "object"
    /\ WellFormed(response.fields)
    /\ response.fields.confidence = Num("1.5")
    /\ "additionalAgents" \in DOMAIN response.fields
    /\ "requiresMultipleAgents" \notin DOMAIN response.fields
    /\ "intent.confidence" \in DOMAIN span
    /\ span["intent.confidence"] = Num("1.5")
    /\ pc = "prompt"

\* the fragments of a sequence of stream events, joined in their order
RECURSIVE DeltasOf(_)
DeltasOf(evs) ==
    IF evs = <<>> THEN <<>>
    ELSE (IF Head(evs).type = "response.output_text.delta"
          THEN Head(evs).delta ELSE <<>>) \o DeltasOf(Tail(evs))

\* the streamed text on the terminal: the printed fragments, joined
RECURSIVE PrintedText(_)
PrintedText(lines) ==
    IF lines = <<>> THEN <<>>
    ELSE (IF Head(lines).k = "delta" THEN Head(lines).val.items ELSE <<>>)
         \o PrintedText(Tail(lines))

\* the largest element of a non-empty set of numbers
Last(S) == CHOOSE i \in S : \A j \in S : j <= i

\* the lines a turn may print besides the streamed fragments
TurnLabels == {"Agent: ", "delta", "newline", "Error", "Hint"}

\* C13: what a turn prints and records is determined by that turn's line and
\* that turn's response alone, whatever earlier turns read, received or
\* failed with: the user attribute is this turn's trimmed line, the streamed
\* text is the fragments of this turn's events, response.output_length is
\* their length at this turn's completion marker, the error attribute is this
\* turn's failure, and the intent client shows this turn's payload only.
C13_TurnDependsOnItsOwnInputs ==
    (script \in Clients /\ lineNo > 0 /\ calls # <<>>) =>
        /\ span[UserKey(script)] = Chars(calls[1].input)
        /\ IsTrimOf(calls[1].input, rawLine)
        /\ "error" \in DOMAIN span =>
              \/ response.kind = "error" /\ response = Failure(span["error"].v)
              \/ response.kind = "invalid"
                 /\ span["error"] = Str("Invalid JSON response")
              \/ response.kind = "other"
        /\ response.kind = "error" => "error" \in DOMAIN span
        /\ script \in StreamingClients /\ pc # "awaiting" =>
              /\ PrintedText(out) = DeltasOf(received)
              /\ \A i \in 1..Len(out) : out[i].k \in TurnLabels
              /\ "response.output_length" \in DOMAIN span
                    <=> Completions(received) # {}
              /\ Completions(received) # {} =>
                    span["response.output_length"] =
                        PyInt(Len(DeltasOf(SubSeq(received, 1,
                                                  Last(Completions(received))))))
        /\ script = "callDetectIntentAgent" =>
              /\ response.kind = "none" => out = <<>>
              /\ response.kind = "object" =>
                    /\ Len(out) = IF FlagIsTruthy(response.fields) THEN 9 ELSE 8
                    /\ \A k \in RequiredKeys \cap DOMAIN response.fields :
                          response.fields[k].ty \in {"str", "num"} =>
                              PrintedWith(Label(k), response.fields[k].v)
              /\ response.kind \in {"invalid", "error"} => Len(out) = 1
              /\ response.kind \notin {"none", "error"} =>
                    span["response.raw"] = Raw(response.text)

C13_Witness ==
    /\ script \in StreamingClients
    /\ lineNo = 2
    /\ invocations = 2
    /\ received = <<Event("response.output_text.delta", <<"!">>, ""),
                    Event("response.completed", <<>>, "")>>
    /\ span["response.output_length"] = PyInt(1)
    /\ pc = "prompt"

\* how many of the lines carry the label k
CountLines(lines, k) == Cardinality({ i \in 1..Len(lines) : lines[i].k = k })

\* how many of the events are text fragments
CountDeltas(evs) ==
    Cardinality({ i \in 1..Len(evs) : evs[i].type = "response.output_text.delta" })

\* C14: in the streaming clients the text printed for a turn is the
\* concatenation of the text fragments of that turn's response in arrival
\* order; events of any other type print nothing; the next prompt comes only
\* after every event of the turn's stream was consumed.
C14_PrintedTextIsTheFragments ==
    (script \in StreamingClients /\ response.kind = "stream") =>
        /\ Len(received) <= Len(response.text)
        /\ received = SubSeq(response.text, 1, Len(received))
        /\ PrintedText(out) = DeltasOf(received)
        /\ CountLines(out, "delta") = CountDeltas(received)
        /\ out[1].k = "Agent: "
        /\ \A i \in 2..Len(out) : out[i].k \in {"delta", "newline"}
        /\ pc = "prompt" =>
              /\ received = response.text
              /\ PrintedText(out) = DeltasOf(response.text)
              /\ out[Len(out)].k = "newline"
              /\ Len(out) = CountDeltas(response.text) + 2
        /\ pc = "streaming" => CountLines(out, "newline") = 0

C14_Witness ==
    /\ script \in StreamingClients
    /\ pc = "prompt"
    /\ response = Stream(<<Event("response.output_text.delta", <<"O", "K">>, ""),
                           Event("response.output_text.delta", <<"!">>, "")>>)
    /\ PrintedText(out) = <<"O", "K", "!">>
    /\ Len(out) = 4

\* C16: a client loop runs only against a provisioned agent: when the version
\* listing of the configured agent name is empty at startup, the client raises
\* and ends before the first prompt; no line is read and no request is issued.
C16_NoLoopWithoutAgentVersion ==
    /\ (script \in Clients /\ cause = "no_versions") =>
            /\ pc = "fatal"
            /\ agent = NoAgent
            /\ lineNo = 0
            /\ invocations = 0
            /\ spans = 0
            /\ calls = <<>>
            /\ network = 1
    /\ (script \in Clients /\ agent = NoAgent) =>
            /\ pc \notin LoopPcs \cup {"done", "interrupted"}
            /\ lineNo = 0
            /\ invocations = 0
    /\ (script \in Clients /\ pc \in LoopPcs) =>
            agent.name = AGENT_NAME(script, env)

C16_Witness ==
    /\ script \in Clients
    /\ cause = "no_versions"
    /\ pc = "fatal"
    /\ network = 1
    /\ lineNo = 0

KbSetup == "createKnowledgeBaseFromBlobStorage"

\* the position of a resource among those created so far, 0 when it is not
Position(r) ==
    IF \E i \in 1..Len(created) : created[i] = r
    THEN CHOOSE i \in 1..Len(created) : created[i] = r
    ELSE 0

\* resource a was created, and before resource b
Before(a, b) == Position(a) > 0 /\ Position(a) < Position(b)

\* C17: the knowledge-base setup creates index, blob data source, skillset,
\* indexer, knowledge source, knowledge base in this order: the indexer only
\* after the index, data source and skillset, the knowledge base only after
\* its knowledge source; a failed creation step aborts the run and nothing is
\* created after it.
C17_ResourcesInOrderAbortOnFailure ==
    /\ [](script = KbSetup =>
            /\ created = SubSeq(<<"index", "datasource", "skillset", "indexer",
                                  "knowledge_source", "knowledge_base">>,
                                1, Len(created))
            /\ Position("indexer") > 0 =>
                  /\ Before("index", "indexer")
                  /\ Before("datasource", "indexer")
                  /\ Before("skillset", "indexer")
            /\ Position("knowledge_base") > 0 =>
                  Before("knowledge_source", "knowledge_base")
            /\ (cause = "exception" /\ network > 0) =>
                  pc = "fatal" /\ Len(created) = network - 1)
    /\ [][ (script = KbSetup /\ pc = "fatal") =>
              (created' = created /\ network' = network /\ pc' = "fatal") ]_vars
    /\ [][ (script = KbSetup /\ created' # created) =>
              (pc' = "client_ready" /\ Len(created') = Len(created) + 1
               /\ SubSeq(created', 1, Len(created)) = created) ]_vars

C17_Witness ==
    /\ script = KbSetup
    /\ pc = "fatal"
    /\ cause = "exception"
    /\ created = <<"index", "datasource", "skillset">>
    /\ network = 4

\* the answer is the letter y in either case, blanks around it ignored
IsYes(line) == IsTrimOf(<<"y">>, line) \/ IsTrimOf(<<"Y">>, line)

\* C18: in the knowledge-base setup the indexer is started only after all six
\* resources were created and only when the answer is "y" in any case with
\* surrounding blanks ignored; a failure to start it is caught and reported,
\* and the setup still reaches its completion message.
C18_IndexerRunOnlyOnYes ==
    /\ (script = KbSetup /\ lineNo = 0) =>
            /\ ~Printed("Indexer started")
            /\ ~Printed("Could not start indexer")
            /\ network <= 6
    /\ (script = KbSetup /\ lineNo > 0) =>
            /\ Len(created) = 6
            /\ (Printed("Indexer started") \/ Printed("Could not start indexer"))
                   <=> IsYes(rawLine)
            /\ ~(Printed("Indexer started") /\ Printed("Could not start indexer"))
            /\ network = IF IsYes(rawLine) THEN 7 ELSE 6
            /\ pc = "done"
            /\ cause = "completed"
            /\ out[Len(out)] = Line("Knowledge Base setup complete!", Str(""))

C18_Witness ==
    /\ script = KbSetup
    /\ rawLine = <<" ", "Y", "\t">>
    /\ Printed("Could not start indexer")
    /\ Printed("Knowledge Base setup complete!")
    /\ pc = "done"

\* C19: in the intent client a turn's span carries the error attribute if and
\* only if the turn failed (the call raised, the response was not valid JSON,
\* or processing the parsed payload raised); it carries intent.category,
\* intent.next_agent and intent.confidence only for a payload that was parsed
\* and displayed; no span has the error attribute together with intent.*.
C19_ErrorAndIntentAttributesExclusive ==
    (script = "callDetectIntentAgent") =>
        /\ "error" \in DOMAIN span
              <=> (calls # <<>> /\ response.kind \in {"error", "invalid", "other"})
        /\ (DOMAIN span \cap IntentKeys # {}) =>
              /\ response.kind = "object"
              /\ IntentKeys \subseteq DOMAIN span
              /\ \A k \in RequiredKeys : Printed(Label(k))
        /\ ~("error" \in DOMAIN span /\ DOMAIN span \cap IntentKeys # {})
        /\ response.kind = "error" => span["error"].v \in ErrorMessages
        /\ response.kind = "other" =>
              /\ Printed("Intent Classification Result:")
              /\ Printed("Error")
              /\ \A k \in RequiredKeys : ~Printed(Label(k))

C19_Witness ==
    /\ script = "callDetectIntentAgent"
    /\ response.kind = "other"
    /\ response.text = <<P("["), P("]")>>
    /\ "error" \in DOMAIN span
    /\ DOMAIN span \cap IntentKeys = {}
    /\ Printed("Intent Classification Result:")
    /\ pc = "prompt"

\* the turn of a streaming client failed, with msg as the message
StreamTurnFailed(msg) ==
    script \in StreamingClients /\ calls # <<>> /\ response = Failure(msg)

\* C20 as stated: in the streaming clients, when the stream fails after some
\* fragments were received, the fragments stay printed, the error is printed
\* and recorded, response.output_length is not recorded for that turn, and
\* the loop continues.
C20_FailedStreamRecordsNoLength ==
    \A msg \in ErrorMessages :
        (StreamTurnFailed(msg) /\ PrintedText(out) # <<>>) =>
            /\ PrintedText(out) = DeltasOf(received)
            /\ PrintedWith("Error", msg)
            /\ span["error"] = Str(msg)
            /\ "response.output_length" \notin DOMAIN span
            /\ pc # "fatal"

\* C20 amended: in the streaming clients, when the stream fails after some
\* fragments were received, the fragments stay printed, the error is printed
\* after them and recorded on the span, response.output_length is recorded
\* for that turn only if the completion marker had arrived before the
\* failure, no closing newline is printed, and the loop is at the prompt again.
C20_FailedStreamKeepsFragments ==
    /\ [](\A msg \in ErrorMessages : StreamTurnFailed(msg) =>
            /\ PrintedText(out) = DeltasOf(received)
            /\ CountLines(out, "delta") = CountDeltas(received)
            /\ CountLines(out, "Error") = 1
            /\ PrintedWith("Error", msg)
            /\ \A i, j \in 1..Len(out) :
                  (out[i].k = "delta" /\ out[j].k = "Error") => i < j
            /\ span["error"] = Str(msg)
            /\ "response.output_length" \in DOMAIN span
                  <=> Completions(received) # {}
            /\ CountLines(out, "newline") = 0
            /\ pc \in {"prompt", "interrupted"})
    /\ [][ (script \in StreamingClients /\ pc = "streaming"
            /\ response'.kind = "error") =>
              /\ pc' = "prompt"
              /\ SubSeq(out', 1, Len(out)) = out
              /\ received' = received
              /\ DOMAIN span' = DOMAIN span \cup {"error"}
              /\ lineNo' = lineNo /\ invocations' = invocations ]_vars

C20_Witness ==
    /\ script \in StreamingClients
    /\ response.kind = "error"
    /\ received = <<Event("response.output_text.delta", <<"O", "K">>, ""),
                    Event("response.output_text.delta", <<"!">>, "")>>
    /\ PrintedText(out) = <<"O", "K", "!">>
    /\ Printed("Error")
    /\ "response.output_length" \notin DOMAIN span
    /\ pc = "prompt"

----------------------------------------------------------------------------
(* C21..C24 *)

LengthKey == "response.output_length"

\* the length of the fragments among the first n events
FragmentLength(evs, n) == Len(DeltasOf(SubSeq(evs, 1, n)))

\* C21: in the streaming clients response.output_length is recorded only when
\* the completion marker is received, its value is the total length of the
\* fragments of that turn received before the marker, and it starts from zero
\* in every turn: text of an earlier turn is never counted.
C21_LengthRecordedAtCompletion ==
    /\ [](script \in StreamingClients =>
            /\ LengthKey \in DOMAIN span <=> Completions(received) # {}
            /\ Completions(received) # {} =>
                  span[LengthKey] =
                      PyInt(FragmentLength(received, Last(Completions(received)) - 1))
            /\ pc = "streaming" => Len(full_response) = FragmentLength(received, Len(received)))
    /\ [][ (script \in StreamingClients /\ LengthKey \in DOMAIN span'
            /\ (LengthKey \notin DOMAIN span \/ span'[LengthKey] # span[LengthKey])) =>
              /\ Len(received') = Len(received) + 1
              /\ received'[Len(received')].type = "response.completed"
              /\ span'[LengthKey] = PyInt(FragmentLength(received, Len(received))) ]_vars

C21_Witness ==
    /\ script \in StreamingClients
    /\ lineNo = 2
    /\ invocations = 2
    /\ received = <<Event("response.completed", <<>>, ""),
                    Event("response.output_text.delta", <<"O", "K">>, "")>>
    /\ span[LengthKey] = PyInt(0)
    /\ full_response = <<"O", "K">>
    /\ pc = "prompt"

\* the entries a listing for the configured name may start with
FirstEntries ==
    { Version(AGENT_NAME(script, env), "2", "agent:2"),
      Version(AGENT_NAME(script, env), "1", "") }

\* C22: the agent identity is resolved once at startup as the first entry of
\* the version listing and no turn changes it: the agent name of every request
\* and the agent.name, agent.version and agent.id attributes of every span are
\* those of that entry, whatever earlier turns did.
C22_AgentIdentityFixedAtStartup ==
    /\ [](script \in Clients =>
            /\ agent = NoAgent \/ agent \in FirstEntries
            /\ calls # <<>> =>
                  /\ agent \in FirstEntries
                  /\ \A i \in 1..Len(calls) : calls[i].agent = agent.name
                  /\ span["agent.name"] = Str(agent.name)
                  /\ span["agent.version"] = Str(agent.version)
                  /\ span["agent.id"] =
                        Str(IF agent.id = "" THEN "unknown" ELSE agent.id))
    /\ [][ (script \in Clients /\ agent' # agent) =>
              (pc = "client_ready" /\ agent = NoAgent /\ lineNo' = 0) ]_vars
    /\ [][ (script \in Clients /\ span # EmptyDict /\ span' # EmptyDict) =>
              /\ span'["agent.name"] = span["agent.name"]
              /\ span'["agent.version"] = span["agent.version"]
              /\ span'["agent.id"] = span["agent.id"] ]_vars

C22_Witness ==
    /\ script \in Clients
    /\ lineNo = 2
    /\ invocations = 2
    /\ agent.version = "2"
    /\ calls # <<>>
    /\ span["agent.id"] = Str("agent:2")
    /\ response.kind = "error"
    /\ pc = "prompt"

\* C23: assuming every remote call eventually returns, fails or delivers a
\* finite event sequence, every line a client loop has read and forwarded is
\* eventually followed by a new prompt (or the process is interrupted): no
\* turn leaves the loop waiting forever.
C23_EveryTurnReturnsToPrompt ==
    (script \in Clients /\ pc \in {"awaiting", "streaming"})
        ~> (pc \in {"prompt", "interrupted"})

C23_Witness ==
    /\ script \in StreamingClients
    /\ pc = "prompt"
    /\ lineNo = 1
    /\ response.kind = "stream"
    /\ received = <<Event("response.created", <<>>, "resp_1"),
                    Event("response.in_progress", <<>>, "")>>
    /\ out[Len(out)].k = "newline"

\* the line has an exit word somewhere in it, in some letter case
ContainsExitWord(line) ==
    \E w \in ExitWords : \E a \in 0..(Len(line) - Len(w)) :
        SameIgnoringCase(SubSeq(line, a + 1, a + Len(w)), w)

\* C24: exit matching is done on the whole trimmed line: an exit word with
\* blanks around it ends the session, and a line that contains an exit word
\* together with other text is no exit token and is forwarded to the agent.
C24_ExitMatchesWholeTrimmedLine ==
    (script \in Clients /\ lineNo > 0 /\ ContainsExitWord(rawLine)) =>
        IF IsExitLine(rawLine)
        THEN /\ pc = "done"
             /\ cause = "exit_token"
             /\ calls = <<>>
             /\ Printed("Goodbye!")
        ELSE /\ cause # "exit_token"
             /\ pc # "done"
             /\ ~Printed("Goodbye!")
             /\ Len(calls) = 1
             /\ ContainsExitWord(calls[1].input)
             /\ IsTrimOf(calls[1].input, rawLine)

C24_Witness ==
    /\ script \in Clients
    /\ rawLine = <<"e", "x", "i", "t", " ", "n", "o", "w">>
    /\ Len(calls) = 1
    /\ calls[1].input = rawLine
    /\ pc = "prompt"
    /\ response.kind # "none"

====
